---- MODULE Spec2Model ----
(***************************************************************************)
(* Model of the TransactionQueue class of src/src/transaction-queue.ts:    *)
(* the Map of transaction records, the Map of task records, the            *)
(* EventEmitter listener lists, and the wall clock read by Date.now().     *)
(***************************************************************************)
EXTENDS Integers, Sequences, FiniteSets, TLC

VARIABLES queue, tasks, handlers, now, issued, last, calls, scenario, held,
          regs, jobs

vars == <<queue, tasks, handlers, now, issued, last, calls, scenario, held,
          regs, jobs>>

----------------------------------------------------------------------------
(* Bounds of the model                                                     *)

\* Date.now() takes the values 0..MaxTime
MaxTime == 1
\* Math.random().toString(36).substring(2, 15) takes the values 0..MaxRnd
MaxRnd == 1
\* createTransaction is not called when the Map already holds MaxQueue records
MaxQueue == 2
\* at most MaxHandlers subscriptions are registered at a time
MaxHandlers == 2
\* a behaviour makes at most MaxCalls calls of the public methods
MaxCalls == 4
\* at most MaxSubs subscriptions are made in a behaviour of the bus scenario
MaxSubs == 2
\* at most MaxJobs calls of the functions of protocol.ts are made
MaxJobs == 2

\* transaction-queue.ts:43 (100 in the source, scaled down)
maxHistorySize == 1

----------------------------------------------------------------------------
(* Values                                                                  *)

\* an absent (undefined) optional field, or a lookup that found nothing
NoVal == "undefined"
\* an absent confirmationTimestamp
NoTime == -1

Times == 0..MaxTime
Rnds == 0..MaxRnd

\* the string `tx_${Date.now()}_${random}` is the pair of its two parts
TxIds == Times \X Rnds
\* a string that generateTransactionId never returns
BogusId == <<-1, 0>>
\* task ids are strings supplied by the caller; this one is also a possible
\* transaction id
TaskIds == {<<0, 0>>}

Types == {"deposit"}
Params == {"p1"}
Hashes == {"0xabc", "0xdef"}
Results == {"r1"}
Errors == {"e1"}

TransactionStatus == {"pending", "confirming", "confirmed", "failed"}
TaskStatus == {"pending", "processing", "completed", "failed"}

TaskRecords ==
    { [status |-> "processing", message |-> "m1", progress |-> 10, result |-> NoVal],
      [status |-> "completed", message |-> "m2", progress |-> 100, result |-> "res"] }

\* what a subscriber's callback does when it is invoked
Behaviours == {"returns", "throws"}
\* a callback may also never return
BusBehaviours == Behaviours \cup {"hangs"}

----------------------------------------------------------------------------
(* The Map<string, TransactionRecord>: a sequence in insertion order       *)

RECURSIVE IndexOf(_, _)
IndexOf(q, id) ==
    IF q = <<>> THEN 0
    ELSE IF q[Len(q)].id = id /\ \A i \in 1..(Len(q) - 1) : q[i].id # id THEN Len(q)
    ELSE IndexOf(SubSeq(q, 1, Len(q) - 1), id)

Has(q, id) == \E i \in 1..Len(q) : q[i].id = id

\* Map.get
Get(q, id) == IF Has(q, id) THEN q[IndexOf(q, id)] ELSE NoVal

\* Map.set: an existing key keeps its position, a new key goes last
Set(q, id, rec) ==
    IF Has(q, id) THEN [q EXCEPT ![IndexOf(q, id)] = rec] ELSE Append(q, rec)

\* Map.delete
RECURSIVE Delete(_, _)
Delete(q, id) ==
    IF q = <<>> THEN <<>>
    ELSE IF Head(q).id = id THEN Delete(Tail(q), id)
    ELSE <<Head(q)>> \o Delete(Tail(q), id)

getTransaction(id) == Get(queue, id)

getAllTransactions == queue

----------------------------------------------------------------------------
(* cleanupOldTransactions                                                  *)

\* variant: rec goes before the elements that compare equal
RECURSIVE InsertSorted_TiesFirst(_, _)
InsertSorted_TiesFirst(s, rec) ==
    IF s = <<>> THEN <<rec>>
    ELSE IF Head(s).timestamp - rec.timestamp < 0
         THEN <<Head(s)>> \o InsertSorted_TiesFirst(Tail(s), rec)
         ELSE <<rec>> \o s

\* insert rec into the sorted sequence s after every element that does not
\* compare greater (a.timestamp - b.timestamp <= 0): Array.prototype.sort is
\* stable
RECURSIVE InsertSorted(_, _)
InsertSorted(s, rec) ==
    IF s = <<>> THEN <<rec>>
    ELSE IF Head(s).timestamp - rec.timestamp <= 0
         THEN <<Head(s)>> \o InsertSorted(Tail(s), rec)
         ELSE <<rec>> \o s

\* transactions.sort((a, b) => a.timestamp - b.timestamp)
RECURSIVE SortByTimestamp(_)
SortByTimestamp(s) ==
    IF s = <<>> THEN <<>>
    ELSE InsertSorted(SortByTimestamp(SubSeq(s, 1, Len(s) - 1)), s[Len(s)])

RECURSIVE DeleteAll(_, _)
DeleteAll(q, toRemove) ==
    IF toRemove = <<>> THEN q
    ELSE DeleteAll(Delete(q, Head(toRemove).id), Tail(toRemove))

\* the elements of s whose status is one of statuses, in order
RECURSIVE SelectSeqOf(_, _)
SelectSeqOf(s, statuses) ==
    IF s = <<>> THEN <<>>
    ELSE IF Head(s).status \in statuses
         THEN <<Head(s)>> \o SelectSeqOf(Tail(s), statuses)
         ELSE SelectSeqOf(Tail(s), statuses)

\* variant: only confirmed and failed records are removed
cleanupOldTransactions_TerminalOnly(q) ==
    IF Len(q) <= maxHistorySize THEN q
    ELSE LET sorted == SelectSeqOf(SortByTimestamp(q), {"confirmed", "failed"})
             k == Len(q) - maxHistorySize
             toRemove == SubSeq(sorted, 1, IF k < Len(sorted) THEN k
                                           ELSE Len(sorted))
         IN DeleteAll(q, toRemove)

cleanupOldTransactions(q) ==
    IF Len(q) <= maxHistorySize THEN q
    ELSE LET sorted == SortByTimestamp(q)
             toRemove == SubSeq(sorted, 1, Len(sorted) - maxHistorySize)
         IN DeleteAll(q, toRemove)

----------------------------------------------------------------------------
(* EventEmitter.emit: the listeners of the event run in registration       *)
(* order, synchronously; a listener that throws ends the emit and the      *)
(* exception reaches the caller of emit; a listener that never returns     *)
(* keeps emit, and the method that called it, from returning               *)

\* hs: the registrations; kind: "tx" for the three transaction events
\* subscribeToTransaction listens to, "task" for task:updated; id: the id
\* of the emitted record.  The result lists the registrations whose
\* callback was invoked and tells whether the emit threw or hung.
RECURSIVE Emit(_, _, _)
Emit(hs, kind, id) ==
    IF hs = <<>> THEN [delivered |-> <<>>, threw |-> FALSE, hung |-> FALSE]
    ELSE LET h == Head(hs)
         IN IF h.kind = kind /\ h.id = id
            THEN IF h.behaviour = "throws"
                 THEN [delivered |-> <<h.reg>>, threw |-> TRUE, hung |-> FALSE]
                 ELSE IF h.behaviour = "hangs"
                 THEN [delivered |-> <<h.reg>>, threw |-> FALSE, hung |-> TRUE]
                 ELSE LET rest == Emit(Tail(hs), kind, id)
                      IN [delivered |-> <<h.reg>> \o rest.delivered,
                          threw |-> rest.threw, hung |-> rest.hung]
            ELSE Emit(Tail(hs), kind, id)

\* nothing was emitted
NoEmit == [delivered |-> <<>>, threw |-> FALSE, hung |-> FALSE]

\* the record of the last call: the operation, its id and argument, whether
\* the id was in the collection, the stored record before the call and the
\* record object after it (NoVal when there is none), the callbacks invoked,
\* whether the call threw and whether it never returned
Call(op, id, arg, known, pre, rec, em) ==
    [op |-> op, id |-> id, arg |-> arg, known |-> known, pre |-> pre,
     rec |-> rec, delivered |-> em.delivered, threw |-> em.threw,
     hung |-> em.hung]

\* one more call of a public method; none is made while a call has not
\* returned (the methods are synchronous and run on one thread)
Called ==
    /\ ~last.hung
    /\ calls < MaxCalls
    /\ calls' = calls + 1

----------------------------------------------------------------------------
(* Operations of TransactionQueue                                          *)

generateTransactionId(rnd) == <<now, rnd>>

\* variant: the new record starts with status confirming
createTransaction_Confirming(type, params, rnd, ts) ==
    LET id == generateTransactionId(rnd)
        transaction == [id |-> id, hash |-> NoVal, status |-> "confirming",
                        type |-> type, params |-> params, result |-> NoVal,
                        error |-> NoVal, timestamp |-> ts,
                        confirmationTimestamp |-> NoTime]
    IN /\ ts \in {now, now + 1} \cap Times
       /\ Has(queue, id) \/ Len(queue) < MaxQueue
       /\ queue' = Set(queue, id, transaction)
       /\ now' = ts
       /\ issued' = issued \cup {id}
       /\ last' = Call("create", id, <<type, params>>, Has(queue, id),
                       Get(queue, id), transaction, NoEmit)
       /\ UNCHANGED <<tasks, handlers>>

\* variant: createTransaction runs the cleanup after storing the record
createTransaction_Cleanup(type, params, rnd, ts) ==
    LET id == generateTransactionId(rnd)
        transaction == [id |-> id, hash |-> NoVal, status |-> "pending",
                        type |-> type, params |-> params, result |-> NoVal,
                        error |-> NoVal, timestamp |-> ts,
                        confirmationTimestamp |-> NoTime]
    IN /\ ts \in {now, now + 1} \cap Times
       /\ Has(queue, id) \/ Len(queue) < MaxQueue
       /\ queue' = cleanupOldTransactions(Set(queue, id, transaction))
       /\ now' = ts
       /\ issued' = issued \cup {id}
       /\ last' = Call("create", id, <<type, params>>, Has(queue, id),
                       Get(queue, id), transaction, NoEmit)
       /\ UNCHANGED <<tasks, handlers>>

\* Date.now() is read once for the id and once more for the timestamp
createTransaction(type, params, rnd, ts) ==
    LET id == generateTransactionId(rnd)
        transaction == [id |-> id, hash |-> NoVal, status |-> "pending",
                        type |-> type, params |-> params, result |-> NoVal,
                        error |-> NoVal, timestamp |-> ts,
                        confirmationTimestamp |-> NoTime]
    IN /\ ts \in {now, now + 1} \cap Times
       /\ Has(queue, id) \/ Len(queue) < MaxQueue
       /\ queue' = Set(queue, id, transaction)
       /\ now' = ts
       /\ issued' = issued \cup {id}
       \* transaction:created has no listeners: nothing subscribes to it
       /\ last' = Call("create", id, <<type, params>>, Has(queue, id),
                       Get(queue, id), transaction, NoEmit)
       /\ UNCHANGED <<tasks, handlers>>

\* variant: the hash is written only while the record has none
setTransactionHash_KeepFirst(id, hash) ==
    LET transaction == Get(queue, id)
    IN IF ~Has(queue, id)
       THEN /\ last' = Call("setHash", id, hash, FALSE, NoVal, NoVal, NoEmit)
            /\ UNCHANGED <<queue, tasks, handlers, now, issued>>
       ELSE LET updated == [transaction EXCEPT
                               !.hash = IF transaction.hash = NoVal THEN hash
                                        ELSE transaction.hash,
                               !.status = "confirming"]
            IN /\ queue' = Set(queue, id, updated)
               /\ last' = Call("setHash", id, hash, TRUE, transaction,
                               updated, Emit(handlers, "tx", id))
               /\ UNCHANGED <<tasks, handlers, now, issued>>

\* variant: the hash is written to every record that is still pending
setTransactionHash_AllPending(id, hash) ==
    LET transaction == Get(queue, id)
    IN IF ~Has(queue, id)
       THEN /\ last' = Call("setHash", id, hash, FALSE, NoVal, NoVal, NoEmit)
            /\ UNCHANGED <<queue, tasks, handlers, now, issued>>
       ELSE LET updated == [transaction EXCEPT !.hash = hash,
                                               !.status = "confirming"]
            IN /\ queue' = [i \in 1..Len(queue) |->
                               IF queue[i].id = id \/ queue[i].status = "pending"
                               THEN [queue[i] EXCEPT !.hash = hash,
                                                     !.status = "confirming"]
                               ELSE queue[i]]
               /\ last' = Call("setHash", id, hash, TRUE, transaction,
                               updated, Emit(handlers, "tx", id))
               /\ UNCHANGED <<tasks, handlers, now, issued>>

setTransactionHash(id, hash) ==
    LET transaction == Get(queue, id)
    IN IF ~Has(queue, id)
       THEN /\ last' = Call("setHash", id, hash, FALSE, NoVal, NoVal, NoEmit)
            /\ UNCHANGED <<queue, tasks, handlers, now, issued>>
       ELSE LET updated == [transaction EXCEPT !.hash = hash,
                                               !.status = "confirming"]
            IN /\ queue' = Set(queue, id, updated)
               /\ last' = Call("setHash", id, hash, TRUE, transaction,
                               updated, Emit(handlers, "tx", id))
               /\ UNCHANGED <<tasks, handlers, now, issued>>

\* variant: the cleanup runs before the lookup of the id
confirmTransaction_CleanupFirst(id, result) ==
    LET cleaned == cleanupOldTransactions(queue)
        transaction == Get(cleaned, id)
    IN IF ~Has(cleaned, id)
       THEN /\ queue' = cleaned
            /\ last' = Call("confirm", id, result, FALSE, NoVal, NoVal, NoEmit)
            /\ UNCHANGED <<tasks, handlers, now, issued>>
       ELSE LET updated == [transaction EXCEPT !.status = "confirmed",
                                               !.result = result,
                                               !.confirmationTimestamp = now]
            IN /\ queue' = Set(cleaned, id, updated)
               /\ last' = Call("confirm", id, result, TRUE, transaction,
                               updated, Emit(handlers, "tx", id))
               /\ UNCHANGED <<tasks, handlers, now, issued>>

\* variant: a record that is already confirmed or failed is left alone
confirmTransaction_Guarded(id, result) ==
    LET transaction == Get(queue, id)
    IN IF ~Has(queue, id)
       THEN /\ last' = Call("confirm", id, result, FALSE, NoVal, NoVal, NoEmit)
            /\ UNCHANGED <<queue, tasks, handlers, now, issued>>
       ELSE IF transaction.status \in {"confirmed", "failed"}
       THEN /\ last' = Call("confirm", id, result, TRUE, transaction,
                            transaction, NoEmit)
            /\ UNCHANGED <<queue, tasks, handlers, now, issued>>
       ELSE LET updated == [transaction EXCEPT !.status = "confirmed",
                                               !.result = result,
                                               !.confirmationTimestamp = now]
                em == Emit(handlers, "tx", id)
                stored == Set(queue, id, updated)
            IN /\ queue' = IF em.threw \/ em.hung THEN stored
                           ELSE cleanupOldTransactions(stored)
               /\ last' = Call("confirm", id, result, TRUE, transaction,
                               updated, em)
               /\ UNCHANGED <<tasks, handlers, now, issued>>

\* variant: confirmTransaction also writes the timestamp field
\* variant: the cleanup runs before the subscribers are notified
confirmTransaction_NotifyLast(id, result) ==
    LET transaction == Get(queue, id)
    IN IF ~Has(queue, id)
       THEN /\ last' = Call("confirm", id, result, FALSE, NoVal, NoVal, NoEmit)
            /\ UNCHANGED <<queue, tasks, handlers, now, issued>>
       ELSE LET updated == [transaction EXCEPT !.status = "confirmed",
                                               !.result = result,
                                               !.confirmationTimestamp = now]
            IN /\ queue' = cleanupOldTransactions(Set(queue, id, updated))
               /\ last' = Call("confirm", id, result, TRUE, transaction,
                               updated, Emit(handlers, "tx", id))
               /\ UNCHANGED <<tasks, handlers, now, issued>>

\* variant: the cleanup also deletes the task stored under an evicted id
confirmTransaction_EvictsTasks(id, result) ==
    LET transaction == Get(queue, id)
    IN IF ~Has(queue, id)
       THEN /\ last' = Call("confirm", id, result, FALSE, NoVal, NoVal, NoEmit)
            /\ UNCHANGED <<queue, tasks, handlers, now, issued>>
       ELSE LET updated == [transaction EXCEPT !.status = "confirmed",
                                               !.result = result,
                                               !.confirmationTimestamp = now]
                em == Emit(handlers, "tx", id)
                stored == Set(queue, id, updated)
                cleaned == IF em.threw \/ em.hung THEN stored
                           ELSE cleanupOldTransactions(stored)
            IN /\ queue' = cleaned
               /\ tasks' = [t \in {t \in DOMAIN tasks :
                                      Has(stored, t) => Has(cleaned, t)} |->
                               tasks[t]]
               /\ last' = Call("confirm", id, result, TRUE, transaction,
                               updated, em)
               /\ UNCHANGED <<handlers, now, issued>>

confirmTransaction_Restamp(id, result) ==
    LET transaction == Get(queue, id)
    IN IF ~Has(queue, id)
       THEN /\ last' = Call("confirm", id, result, FALSE, NoVal, NoVal, NoEmit)
            /\ UNCHANGED <<queue, tasks, handlers, now, issued>>
       ELSE LET updated == [transaction EXCEPT !.status = "confirmed",
                                               !.result = result,
                                               !.timestamp = now,
                                               !.confirmationTimestamp = now]
                em == Emit(handlers, "tx", id)
                stored == Set(queue, id, updated)
            IN /\ queue' = IF em.threw \/ em.hung THEN stored
                           ELSE cleanupOldTransactions(stored)
               /\ last' = Call("confirm", id, result, TRUE, transaction,
                               updated, em)
               /\ UNCHANGED <<tasks, handlers, now, issued>>

confirmTransaction(id, result) ==
    LET transaction == Get(queue, id)
    IN IF ~Has(queue, id)
       THEN /\ last' = Call("confirm", id, result, FALSE, NoVal, NoVal, NoEmit)
            /\ UNCHANGED <<queue, tasks, handlers, now, issued>>
       ELSE LET updated == [transaction EXCEPT !.status = "confirmed",
                                               !.result = result,
                                               !.confirmationTimestamp = now]
                em == Emit(handlers, "tx", id)
                stored == Set(queue, id, updated)
            IN \* the cleanup is not reached when the emit threw or hung
               /\ queue' = IF em.threw \/ em.hung THEN stored
                           ELSE cleanupOldTransactions(stored)
               /\ last' = Call("confirm", id, result, TRUE, transaction,
                               updated, em)
               /\ UNCHANGED <<tasks, handlers, now, issued>>

\* variant: a record that is already confirmed or failed is left alone
failTransaction_Guarded(id, error) ==
    LET transaction == Get(queue, id)
    IN IF ~Has(queue, id)
       THEN /\ last' = Call("fail", id, error, FALSE, NoVal, NoVal, NoEmit)
            /\ UNCHANGED <<queue, tasks, handlers, now, issued>>
       ELSE IF transaction.status \in {"confirmed", "failed"}
       THEN /\ last' = Call("fail", id, error, TRUE, transaction,
                            transaction, NoEmit)
            /\ UNCHANGED <<queue, tasks, handlers, now, issued>>
       ELSE LET updated == [transaction EXCEPT !.status = "failed",
                                               !.error = error]
            IN /\ queue' = Set(queue, id, updated)
               /\ last' = Call("fail", id, error, TRUE, transaction, updated,
                               Emit(handlers, "tx", id))
               /\ UNCHANGED <<tasks, handlers, now, issued>>

\* variant: an id that is not in the Map gets a record
failTransaction_Upsert(id, error) ==
    LET transaction ==
            IF Has(queue, id) THEN Get(queue, id)
            ELSE [id |-> id, hash |-> NoVal, status |-> "pending",
                  type |-> NoVal, params |-> NoVal, result |-> NoVal,
                  error |-> NoVal, timestamp |-> now,
                  confirmationTimestamp |-> NoTime]
        updated == [transaction EXCEPT !.status = "failed", !.error = error]
    IN /\ queue' = Set(queue, id, updated)
       /\ last' = Call("fail", id, error, Has(queue, id), transaction, updated,
                       Emit(handlers, "tx", id))
       /\ UNCHANGED <<tasks, handlers, now, issued>>

failTransaction(id, error) ==
    LET transaction == Get(queue, id)
    IN IF ~Has(queue, id)
       THEN /\ last' = Call("fail", id, error, FALSE, NoVal, NoVal, NoEmit)
            /\ UNCHANGED <<queue, tasks, handlers, now, issued>>
       ELSE LET updated == [transaction EXCEPT !.status = "failed",
                                               !.error = error]
            IN /\ queue' = Set(queue, id, updated)
               /\ last' = Call("fail", id, error, TRUE, transaction, updated,
                               Emit(handlers, "tx", id))
               /\ UNCHANGED <<tasks, handlers, now, issued>>

\* the registration numbers in use
Regs == {handlers[i].reg : i \in 1..Len(handlers)}

\* EventEmitter.on of a new handler closure, numbered reg
SubscribeAs(reg, kind, id, behaviour) ==
    /\ handlers' = Append(handlers, [reg |-> reg, kind |-> kind, id |-> id,
                                     behaviour |-> behaviour])
    /\ last' = Call("subscribe", id, reg, FALSE, NoVal, NoVal, NoEmit)
    /\ UNCHANGED <<queue, tasks, now, issued>>

Subscribe(kind, id, behaviour) ==
    /\ Len(handlers) < MaxHandlers
    /\ SubscribeAs(CHOOSE r \in 1..MaxHandlers : r \notin Regs, kind, id,
                   behaviour)

subscribeToTransaction(id, behaviour) == Subscribe("tx", id, behaviour)

subscribeToTask(id, behaviour) == Subscribe("task", id, behaviour)

\* variant: off removes every registration of the same callback for the
\* same id
Off_SameCallback(hs, reg) ==
    IF \E i \in 1..Len(hs) : hs[i].reg = reg
    THEN LET h == hs[CHOOSE i \in 1..Len(hs) : hs[i].reg = reg]
         IN SelectSeq(hs, LAMBDA g : ~(/\ g.kind = h.kind
                                       /\ g.id = h.id
                                       /\ g.behaviour = h.behaviour))
    ELSE hs

\* EventEmitter.off on each event the handler was registered for
RECURSIVE Off(_, _)
Off(hs, reg) ==
    IF hs = <<>> THEN <<>>
    ELSE IF Head(hs).reg = reg THEN Tail(hs)
    ELSE <<Head(hs)>> \o Off(Tail(hs), reg)

\* the registration numbered reg
HandlerOf(reg) ==
    handlers[CHOOSE i \in 1..Len(handlers) : handlers[i].reg = reg]

\* the function returned by subscribeToTransaction or subscribeToTask
unsubscribe(reg) ==
    /\ handlers' = Off(handlers, reg)
    /\ last' = Call("unsubscribe", NoVal, reg, reg \in Regs,
                    IF reg \in Regs THEN HandlerOf(reg) ELSE NoVal, NoVal,
                    NoEmit)
    /\ UNCHANGED <<queue, tasks, now, issued>>

\* variant: a field the new record leaves undefined keeps its stored value
updateTaskStatus_Merge(taskId, taskRecord) ==
    LET merged == IF taskId \in DOMAIN tasks /\ taskRecord.result = NoVal
                  THEN [taskRecord EXCEPT !.result = tasks[taskId].result]
                  ELSE taskRecord
    IN /\ tasks' = [id \in (DOMAIN tasks) \cup {taskId} |->
                       IF id = taskId THEN merged ELSE tasks[id]]
       /\ last' = Call("updateTask", taskId, taskRecord, taskId \in DOMAIN tasks,
                       IF taskId \in DOMAIN tasks THEN tasks[taskId] ELSE NoVal,
                       merged, Emit(handlers, "task", taskId))
       /\ UNCHANGED <<queue, handlers, now, issued>>

updateTaskStatus(taskId, taskRecord) ==
    /\ tasks' = [id \in (DOMAIN tasks) \cup {taskId} |->
                    IF id = taskId THEN taskRecord ELSE tasks[id]]
    /\ last' = Call("updateTask", taskId, taskRecord, taskId \in DOMAIN tasks,
                    IF taskId \in DOMAIN tasks THEN tasks[taskId] ELSE NoVal,
                    taskRecord, Emit(handlers, "task", taskId))
    /\ UNCHANGED <<queue, handlers, now, issued>>

getTaskStatus(taskId) == IF taskId \in DOMAIN tasks THEN tasks[taskId] ELSE NoVal

\* variant: removing a task clears the whole Map
removeTask_Clear(taskId) ==
    /\ tasks' = <<>>
    /\ last' = Call("removeTask", taskId, NoVal, taskId \in DOMAIN tasks,
                    IF taskId \in DOMAIN tasks THEN tasks[taskId] ELSE NoVal,
                    NoVal, NoEmit)
    /\ UNCHANGED <<queue, handlers, now, issued>>

removeTask(taskId) ==
    /\ tasks' = [id \in (DOMAIN tasks) \ {taskId} |-> tasks[id]]
    /\ last' = Call("removeTask", taskId, NoVal, taskId \in DOMAIN tasks,
                    IF taskId \in DOMAIN tasks THEN tasks[taskId] ELSE NoVal,
                    NoVal, NoEmit)
    /\ UNCHANGED <<queue, handlers, now, issued>>

\* the wall clock advances
Tick ==
    /\ now < MaxTime
    /\ now' = now + 1
    /\ UNCHANGED <<queue, tasks, handlers, issued, last, calls, scenario, held,
                   regs, jobs>>

----------------------------------------------------------------------------
(* Specification                                                           *)

Init ==
    /\ queue = <<>>
    /\ tasks = <<>>
    /\ handlers = <<>>
    /\ now = 0
    /\ issued = {}
    /\ last = Call("new", NoVal, NoVal, FALSE, NoVal, NoVal, NoEmit)
    /\ calls = 0
    /\ scenario = [phase |-> "creating", created |-> <<>>, done |-> {}]
    /\ held = <<>>
    /\ regs = 0
    /\ jobs = <<>>

DoCreate == \E type \in Types, params \in Params, rnd \in Rnds, ts \in Times :
                createTransaction(type, params, rnd, ts)
\* the ids a caller passes: one that createTransaction has returned, or a
\* string that is no transaction id
CallerIds == issued \cup {BogusId}

DoSetHash == \E id \in CallerIds, hash \in Hashes : setTransactionHash(id, hash)
DoConfirm == \E id \in CallerIds, result \in Results : confirmTransaction(id, result)
DoFail == \E id \in CallerIds, error \in Errors : failTransaction(id, error)
DoSubscribeTx == \E id \in CallerIds, b \in Behaviours : subscribeToTransaction(id, b)
DoSubscribeTask == \E id \in TaskIds, b \in Behaviours : subscribeToTask(id, b)
DoUnsubscribe == \E reg \in 1..MaxHandlers : unsubscribe(reg)
DoUpdateTask == \E id \in TaskIds, rec \in TaskRecords : updateTaskStatus(id, rec)
DoRemoveTask == \E id \in TaskIds : removeTask(id)

\* what the model records besides the state of the TransactionQueue
aux == <<scenario, held, regs, jobs>>

Next ==
    \/ Called /\ DoCreate /\ UNCHANGED aux
    \/ Called /\ DoSetHash /\ UNCHANGED aux
    \/ Called /\ DoConfirm /\ UNCHANGED aux
    \/ Called /\ DoFail /\ UNCHANGED aux
    \/ Called /\ DoSubscribeTx /\ UNCHANGED aux
    \/ Called /\ DoSubscribeTask /\ UNCHANGED aux
    \/ Called /\ DoUnsubscribe /\ UNCHANGED aux
    \/ Called /\ DoUpdateTask /\ UNCHANGED aux
    \/ Called /\ DoRemoveTask /\ UNCHANGED aux
    \/ Tick

Spec == Init /\ [][Next]_vars

----------------------------------------------------------------------------
(* The eviction scenario: records are created, then confirmTransaction is  *)
(* called once on each of them, in any order, and nothing else is called   *)

Ids(q) == {q[i].id : i \in 1..Len(q)}

EvCreate ==
    /\ scenario.phase = "creating"
    /\ DoCreate
    /\ UNCHANGED <<calls, scenario, held, regs, jobs>>

\* the creations are over: the records now in the Map are the ones created
EvStart ==
    /\ scenario.phase = "creating"
    /\ scenario' = [phase |-> "completing", created |-> getAllTransactions,
                    done |-> {}]
    /\ UNCHANGED <<queue, tasks, handlers, now, issued, last, calls, held,
                   regs, jobs>>

EvComplete ==
    /\ scenario.phase = "completing"
    /\ \E id \in Ids(scenario.created) \ scenario.done, result \in Results :
          /\ confirmTransaction(id, result)
          /\ scenario' = [scenario EXCEPT !.done = @ \cup {id}]
    /\ UNCHANGED <<calls, held, regs, jobs>>

NextEviction ==
    \/ EvCreate
    \/ EvStart
    \/ EvComplete
    \/ Tick

SpecEviction == Init /\ [][NextEviction]_vars

----------------------------------------------------------------------------
(* The bus scenario: callers subscribe, read and mutate, and keep the      *)
(* record objects they are handed.  A record object is passed by           *)
(* reference: emit hands the listeners the object stored in the Map, and   *)
(* getTransaction returns it.  The setters assign to the fields of that    *)
(* object, so whoever holds it sees the assignments.  createTransaction    *)
(* on an id in use puts a new object in the Map, and the cleanup takes the *)
(* object out of the Map; the object a caller holds then changes no more.  *)

\* a held object after the step: seen is the value it had when the caller
\* got it, rec the value it has now, live whether it is the object the Map
\* holds under its id
HeldObject(e) ==
    IF ~e.live THEN e
    ELSE IF last'.op = "create" /\ last'.id = e.id
         THEN [e EXCEPT !.live = FALSE]
    ELSE IF last'.op \in {"setHash", "confirm", "fail"} /\ last'.known
            /\ last'.id = e.id
         THEN [e EXCEPT !.rec = last'.rec, !.live = Has(queue', e.id)]
    ELSE [e EXCEPT !.live = Has(queue', e.id)]

\* the objects handed by the step to the callbacks that return
Notified ==
    IF last'.op \in {"setHash", "confirm", "fail"}
    THEN LET keepers == SelectSeq(last'.delivered,
                            LAMBDA r : HandlerOf(r).behaviour = "returns")
         IN [i \in 1..Len(keepers) |->
                [reg |-> keepers[i], id |-> last'.id, seen |-> last'.rec,
                 rec |-> last'.rec, live |-> Has(queue', last'.id)]]
    ELSE <<>>

\* the callers keep what they were handed
Kept ==
    /\ held' = [i \in 1..Len(held) |-> HeldObject(held[i])] \o Notified
    /\ UNCHANGED <<scenario, regs, jobs>>

\* a caller reads a record and keeps what getTransaction returned
BusGet ==
    \E id \in issued :
        /\ Has(queue, id)
        /\ last' = Call("get", id, NoVal, TRUE, getTransaction(id),
                        getTransaction(id), NoEmit)
        /\ held' = Append(held, [reg |-> 0, id |-> id,
                                 seen |-> getTransaction(id),
                                 rec |-> getTransaction(id), live |-> TRUE])
        /\ UNCHANGED <<queue, tasks, handlers, now, issued, scenario, regs,
                       jobs>>

\* every subscription is a new handler closure: its number is not used again
BusSubscribeTx ==
    /\ ~last.hung
    /\ regs < MaxSubs
    /\ \E id \in issued, b \in BusBehaviours :
          SubscribeAs(regs + 1, "tx", id, b)
    /\ regs' = regs + 1
    /\ UNCHANGED <<calls, scenario, held, jobs>>

BusSubscribeTask ==
    /\ ~last.hung
    /\ regs < MaxSubs
    /\ \E id \in TaskIds, b \in BusBehaviours :
          SubscribeAs(regs + 1, "task", id, b)
    /\ regs' = regs + 1
    /\ UNCHANGED <<calls, scenario, held, jobs>>

NextBus ==
    \/ Called /\ DoCreate /\ Kept
    \/ Called /\ DoSetHash /\ Kept
    \/ Called /\ DoConfirm /\ Kept
    \/ Called /\ DoFail /\ Kept
    \/ Called /\ DoUpdateTask /\ Kept
    \/ Called /\ BusGet
    \/ BusSubscribeTx
    \/ BusSubscribeTask
    \/ Tick

SpecBus == Init /\ [][NextBus]_vars

----------------------------------------------------------------------------
(* protocol.ts, the functions that submit a blockchain transaction.        *)
(* depositFunds and withdrawFunds create the record, hand the rest to      *)
(* setTimeout(..., 0) and return; the timer callback awaits the contract   *)
(* call and then tx.wait(1).  borrowFunds, repayBorrowed and               *)
(* redeemCollateral await the contract call and tx.wait() themselves and   *)
(* never touch the TransactionQueue.  A job is one call of such a          *)
(* function: fn is the function, tracked whether it created a record, id   *)
(* the transactionId it returns, pc where it stands, returned whether the  *)
(* function has returned, waited whether it awaited the confirmation       *)
(* before returning, terminals the number of confirmTransaction and        *)
(* failTransaction calls it has made.                                      *)

TrackedFns == {"depositFunds", "withdrawFunds"}
DirectFns == {"borrowFunds", "repayBorrowed", "redeemCollateral"}

\* tx.hash of the transaction a contract call returns
TxHashes == {"0xabc"}

\* the first argument of createTransaction
TypeOf(fn) == IF fn = "depositFunds" THEN "deposit" ELSE "withdraw"

\* JavaScript runs a callback to completion: while a catch block of a job
\* is about to run, or a callback never returned, nothing else runs
Running ==
    \/ last.hung
    \/ \E j \in 1..Len(jobs) : jobs[j].pc \in {"catching", "catchingWait"}

\* where a job stands after a call into the TransactionQueue: the call
\* never returned, threw (into the enclosing catch, or out of the callback
\* when there is none), or returned
After(normal, catch) ==
    IF last'.hung THEN "hung"
    ELSE IF last'.threw THEN catch
    ELSE normal

NoQueueCall == UNCHANGED <<queue, tasks, handlers, now, issued, last>>

\* variant: the contract call is made, and its hash stored, before the
\* function returns
SubmitTracked_Inline(fn) ==
    /\ ~Running
    /\ Len(jobs) < MaxJobs
    /\ \E params \in Params, rnd \in Rnds, ts \in Times, hash \in TxHashes :
          LET id == generateTransactionId(rnd)
              transaction == [id |-> id, hash |-> hash, status |-> "confirming",
                              type |-> TypeOf(fn), params |-> params,
                              result |-> NoVal, error |-> NoVal,
                              timestamp |-> ts,
                              confirmationTimestamp |-> NoTime]
          IN /\ ts \in {now, now + 1} \cap Times
             /\ Has(queue, id) \/ Len(queue) < MaxQueue
             /\ queue' = Set(queue, id, transaction)
             /\ now' = ts
             /\ issued' = issued \cup {id}
             /\ last' = Call("setHash", id, hash, TRUE, transaction,
                             transaction, NoEmit)
             /\ UNCHANGED <<tasks, handlers>>
    /\ jobs' = Append(jobs, [fn |-> fn, tracked |-> TRUE, id |-> last'.id,
                             pc |-> "waiting", returned |-> TRUE,
                             waited |-> FALSE, terminals |-> 0])
    /\ UNCHANGED <<calls, scenario, held, regs>>

\* depositFunds / withdrawFunds up to their return: createTransaction, then
\* setTimeout
SubmitTracked(fn) ==
    /\ ~Running
    /\ Len(jobs) < MaxJobs
    /\ \E params \in Params, rnd \in Rnds, ts \in Times :
          createTransaction(TypeOf(fn), params, rnd, ts)
    /\ jobs' = Append(jobs, [fn |-> fn, tracked |-> TRUE, id |-> last'.id,
                             pc |-> "scheduled", returned |-> TRUE,
                             waited |-> FALSE, terminals |-> 0])
    /\ UNCHANGED <<calls, scenario, held, regs>>

depositFunds == SubmitTracked("depositFunds")

withdrawFunds == SubmitTracked("withdrawFunds")

\* the timer callback: the contract call throws (or the contract cannot be
\* built); the outer catch calls failTransaction
SendFails(j) ==
    /\ ~Running
    /\ jobs[j].pc = "scheduled"
    /\ \E error \in Errors : failTransaction(jobs[j].id, error)
    /\ jobs' = [jobs EXCEPT ![j].pc = After("done", "done"),
                            ![j].terminals = @ + 1]
    /\ UNCHANGED <<calls, scenario, held, regs>>

\* the timer callback: the contract call returns tx; setTransactionHash
Sent(j) ==
    /\ ~Running
    /\ jobs[j].pc = "scheduled"
    /\ \E hash \in TxHashes : setTransactionHash(jobs[j].id, hash)
    /\ jobs' = [jobs EXCEPT ![j].pc = After("waiting", "catching")]
    /\ UNCHANGED <<calls, scenario, held, regs>>

\* tx.wait(1) returns; confirmTransaction
Mined(j) ==
    /\ ~Running
    /\ jobs[j].pc = "waiting"
    /\ \E result \in Results : confirmTransaction(jobs[j].id, result)
    /\ jobs' = [jobs EXCEPT ![j].pc = After("done", "catchingWait"),
                            ![j].terminals = @ + 1]
    /\ UNCHANGED <<calls, scenario, held, regs>>

\* tx.wait(1) throws; the inner catch calls failTransaction
WaitFails(j) ==
    /\ ~Running
    /\ jobs[j].pc = "waiting"
    /\ \E error \in Errors : failTransaction(jobs[j].id, error)
    /\ jobs' = [jobs EXCEPT ![j].pc = After("done", "catching"),
                            ![j].terminals = @ + 1]
    /\ UNCHANGED <<calls, scenario, held, regs>>

\* confirmTransaction threw: the catch around tx.wait calls failTransaction
CaughtWait(j) ==
    /\ ~last.hung
    /\ jobs[j].pc = "catchingWait"
    /\ \E error \in Errors : failTransaction(jobs[j].id, error)
    /\ jobs' = [jobs EXCEPT ![j].pc = After("done", "catching"),
                            ![j].terminals = @ + 1]
    /\ UNCHANGED <<calls, scenario, held, regs>>

\* setTransactionHash, or failTransaction in the catch around tx.wait,
\* threw: the outer catch calls failTransaction
Caught(j) ==
    /\ ~last.hung
    /\ jobs[j].pc = "catching"
    /\ \E error \in Errors : failTransaction(jobs[j].id, error)
    /\ jobs' = [jobs EXCEPT ![j].pc = After("done", "done"),
                            ![j].terminals = @ + 1]
    /\ UNCHANGED <<calls, scenario, held, regs>>

\* borrowFunds, repayBorrowed, redeemCollateral: the contract call is made
SubmitDirect(fn) ==
    /\ ~Running
    /\ Len(jobs) < MaxJobs
    /\ jobs' = Append(jobs, [fn |-> fn, tracked |-> FALSE, id |-> NoVal,
                             pc |-> "awaiting", returned |-> FALSE,
                             waited |-> FALSE, terminals |-> 0])
    /\ NoQueueCall
    /\ UNCHANGED <<calls, scenario, held, regs>>

\* ... and after tx.wait() the function returns {hash, explorer} or throws
DirectReturns(j) ==
    /\ ~Running
    /\ jobs[j].pc = "awaiting"
    /\ jobs' = [jobs EXCEPT ![j].pc = "done", ![j].returned = TRUE,
                            ![j].waited = TRUE]
    /\ NoQueueCall
    /\ UNCHANGED <<calls, scenario, held, regs>>

\* depositFunds and withdrawFunds; nobody subscribes, so that no call into
\* the TransactionQueue throws
NextDeferred ==
    \/ depositFunds
    \/ withdrawFunds
    \/ \E j \in 1..Len(jobs) : SendFails(j)
    \/ \E j \in 1..Len(jobs) : Sent(j)
    \/ \E j \in 1..Len(jobs) : Mined(j)
    \/ \E j \in 1..Len(jobs) : WaitFails(j)

SpecDeferred == Init /\ [][NextDeferred]_vars

\* all five functions that submit a transaction
NextSubmit ==
    \/ NextDeferred
    \/ \E fn \in DirectFns : SubmitDirect(fn)
    \/ \E j \in 1..Len(jobs) : DirectReturns(j)

SpecSubmit == Init /\ [][NextSubmit]_vars

\* a caller that was handed a transactionId subscribes to it
SubmitSubscribe == ~Running /\ BusSubscribeTx

NextSubmitBus ==
    \/ NextDeferred
    \/ \E j \in 1..Len(jobs) : CaughtWait(j)
    \/ \E j \in 1..Len(jobs) : Caught(j)
    \/ SubmitSubscribe

SpecSubmitBus == Init /\ [][NextSubmitBus]_vars

----------------------------------------------------------------------------
(* protocol.ts, the analysis functions.  getMarketLiquidityAsync,          *)
(* getUserPositionAsync and getProtocolAnalysis make a task id, call their *)
(* async process function without awaiting it and return the id.  The     *)
(* process function runs inside that call up to its first await; every     *)
(* updateTaskStatus call is one step.  A job is one call of an analysis    *)
(* function: id is the task id, at the index in Script(fn) of the next     *)
(* progress update, pc where the process function stands, returned         *)
(* whether the analysis function has returned the id, inline the number of *)
(* updateTaskStatus calls made before it returned, written the progress    *)
(* values of its updateTaskStatus calls in order, terminals the number of  *)
(* calls with status completed or failed.                                  *)

AnalysisFns ==
    {"getMarketLiquidityAsync", "getUserPositionAsync", "getProtocolAnalysis"}

Prefix(fn) ==
    IF fn = "getMarketLiquidityAsync" THEN "liquidity"
    ELSE IF fn = "getUserPositionAsync" THEN "position"
    ELSE "analysis"

\* the string `${prefix}-${Date.now()}-${random}` is the triple of its parts
AnalysisIds == {<<Prefix(fn), t, r>> : fn \in AnalysisFns, t \in Times, r \in Rnds}

\* the progress updates of a process function in program order, each with
\* what catches an exception of the call: nothing, the try block of the
\* function, or the try block inside the loop over the market tokens,
\* which goes on with the next token
Script(fn) ==
    IF fn = "getMarketLiquidityAsync"
    THEN <<[progress |-> 10, catch |-> "try"], [progress |-> 30, catch |-> "try"],
           [progress |-> 50, catch |-> "try"], [progress |-> 70, catch |-> "try"]>>
    ELSE IF fn = "getUserPositionAsync"
    THEN <<[progress |-> 10, catch |-> "try"], [progress |-> 30, catch |-> "try"],
           [progress |-> 60, catch |-> "try"], [progress |-> 80, catch |-> "try"],
           [progress |-> 85, catch |-> "try"]>>
    ELSE <<[progress |-> 10, catch |-> "none"], [progress |-> 15, catch |-> "try"],
           [progress |-> 30, catch |-> "try"], [progress |-> 40, catch |-> "try"],
           [progress |-> 50, catch |-> "try"], [progress |-> 55, catch |-> "loop"],
           [progress |-> 60, catch |-> "loop"], [progress |-> 65, catch |-> "loop"],
           [progress |-> 70, catch |-> "loop"], [progress |-> 75, catch |-> "loop"],
           [progress |-> 80, catch |-> "loop"], [progress |-> 85, catch |-> "try"]>>

\* how many of them come before the first await of the process function
Inline(fn) ==
    IF fn = "getMarketLiquidityAsync" THEN 3
    ELSE IF fn = "getUserPositionAsync" THEN 1
    ELSE 2

Processing(progress) ==
    [status |-> "processing", message |-> "m1", progress |-> progress,
     result |-> NoVal]

Completed ==
    [status |-> "completed", message |-> "m2", progress |-> 100, result |-> "res"]

\* variant: the failure update carries a result
Failed_WithResult ==
    [status |-> "failed", message |-> "e1", progress |-> 0, result |-> "res"]

Failed ==
    [status |-> "failed", message |-> "e1", progress |-> 0, result |-> NoVal]

\* the j-th job may take a step: no callback hangs, and no other job is
\* in the middle of code that has not reached an await
Turn(j) ==
    /\ ~last.hung
    /\ \A k \in 1..Len(jobs) :
          k # j => jobs[k].returned /\ jobs[k].pc # "catching"

\* the j-th job after an updateTaskStatus call: it stands at pc and at; the
\* analysis function has returned once the process function has reached
\* an await or its end
Stepped(j, pc, at, terminal) ==
    jobs' = [jobs EXCEPT ![j] =
                [@ EXCEPT !.pc = pc,
                          !.at = at,
                          !.terminals = @ + terminal,
                          !.inline = IF jobs[j].returned THEN @ ELSE @ + 1,
                          !.written = Append(@, last'.arg.progress),
                          !.returned = \/ @
                                       \/ pc \in {"done", "rejected"}
                                       \/ pc = "running" /\ at > Inline(jobs[j].fn)]]

\* the analysis function makes the task id and calls the process function
SubmitAnalysis(fn) ==
    /\ Turn(0)
    /\ Len(jobs) < MaxJobs
    /\ \E rnd \in Rnds :
          jobs' = Append(jobs, [fn |-> fn, id |-> <<Prefix(fn), now, rnd>>,
                                pc |-> "running", at |-> 1, returned |-> FALSE,
                                inline |-> 0, written |-> <<>>,
                                terminals |-> 0])
    /\ NoQueueCall
    /\ UNCHANGED <<calls, scenario, held, regs>>

getMarketLiquidityAsync == SubmitAnalysis("getMarketLiquidityAsync")

getUserPositionAsync == SubmitAnalysis("getUserPositionAsync")

getProtocolAnalysis == SubmitAnalysis("getProtocolAnalysis")

\* the next progress update of the process function
Progress(j) ==
    LET job == jobs[j]
        step == Script(job.fn)[job.at]
    IN /\ Turn(j)
       /\ job.pc = "running"
       /\ job.at <= Len(Script(job.fn))
       /\ updateTaskStatus(job.id, Processing(step.progress))
       /\ IF last'.hung THEN Stepped(j, "hung", job.at, 0)
          ELSE IF last'.threw /\ step.catch = "none"
          THEN Stepped(j, "rejected", job.at, 0)
          ELSE IF last'.threw /\ step.catch = "try"
          THEN Stepped(j, "catching", job.at, 0)
          ELSE Stepped(j, "running", job.at + 1, 0)
       /\ UNCHANGED <<calls, scenario, held, regs>>

\* processMarketLiquidityTask: getETokenAddress throws, the task is
\* completed with default values
NoEToken(j) ==
    /\ Turn(j)
    /\ jobs[j].fn = "getMarketLiquidityAsync"
    /\ jobs[j].pc = "running"
    /\ jobs[j].at = 3
    /\ updateTaskStatus(jobs[j].id, Completed)
    /\ Stepped(j, After("done", "catching"), jobs[j].at, 1)
    /\ UNCHANGED <<calls, scenario, held, regs>>

\* the terminal update at the end of the try block
Complete(j) ==
    /\ Turn(j)
    /\ jobs[j].pc = "running"
    /\ jobs[j].at = Len(Script(jobs[j].fn)) + 1
    /\ updateTaskStatus(jobs[j].id, Completed)
    /\ Stepped(j, After("done", "catching"), jobs[j].at, 1)
    /\ UNCHANGED <<calls, scenario, held, regs>>

\* an awaited call throws, or updateTaskStatus threw inside the try block:
\* the catch block makes the terminal update
Fail(j) ==
    /\ Turn(j)
    /\ \/ jobs[j].pc = "catching"
       \/ jobs[j].pc = "running" /\ jobs[j].at > Inline(jobs[j].fn)
    /\ updateTaskStatus(jobs[j].id, Failed)
    /\ Stepped(j, After("done", "rejected"), jobs[j].at, 1)
    /\ UNCHANGED <<calls, scenario, held, regs>>

\* nobody subscribes
NextAnalysis ==
    \/ getMarketLiquidityAsync
    \/ getUserPositionAsync
    \/ getProtocolAnalysis
    \/ \E j \in 1..Len(jobs) : Progress(j)
    \/ \E j \in 1..Len(jobs) : NoEToken(j)
    \/ \E j \in 1..Len(jobs) : Complete(j)
    \/ \E j \in 1..Len(jobs) : Fail(j)
    \/ Tick

SpecAnalysis == Init /\ [][NextAnalysis]_vars

\* the process function of every earlier analysis has ended
Idle == \A j \in 1..Len(jobs) : jobs[j].pc \in {"done", "rejected"}

\* the analyses one after the other, within one millisecond: each is
\* started when the one before it has ended
NextSerial ==
    \/ Idle /\ getMarketLiquidityAsync
    \/ Idle /\ getUserPositionAsync
    \/ Idle /\ getProtocolAnalysis
    \/ \E j \in 1..Len(jobs) : Progress(j)
    \/ \E j \in 1..Len(jobs) : NoEToken(j)
    \/ \E j \in 1..Len(jobs) : Complete(j)
    \/ \E j \in 1..Len(jobs) : Fail(j)

SpecSerial == Init /\ [][NextSerial]_vars

\* subscribeToTask for a task id getProtocolAnalysis may return in this
\* millisecond
AnalysisSubscribe ==
    /\ Turn(0)
    /\ regs < MaxSubs
    /\ \E r \in Rnds, b \in Behaviours :
          SubscribeAs(regs + 1, "task", <<Prefix("getProtocolAnalysis"), now, r>>, b)
    /\ regs' = regs + 1
    /\ UNCHANGED <<calls, scenario, held, jobs>>

\* getProtocolAnalysis with subscribers, all within one millisecond
NextAnalysisBus ==
    \/ getProtocolAnalysis
    \/ \E j \in 1..Len(jobs) : Progress(j)
    \/ \E j \in 1..Len(jobs) : Complete(j)
    \/ \E j \in 1..Len(jobs) : Fail(j)
    \/ AnalysisSubscribe

SpecAnalysisBus == Init /\ [][NextAnalysisBus]_vars

----------------------------------------------------------------------------
(* The task records of the three analyses side by side: the callers of     *)
(* updateTaskStatus, getTaskStatus, removeTask and subscribeToTask.        *)

\* one task id of each analysis function
StatusIds == {<<Prefix(fn), 0, 0>> : fn \in AnalysisFns}

TasksUpdate ==
    \E id \in StatusIds, rec \in {Processing(10), Completed, Failed} :
        updateTaskStatus(id, rec)

TasksRemove == \E id \in StatusIds : removeTask(id)

TasksSubscribe == \E id \in StatusIds, b \in Behaviours : subscribeToTask(id, b)

NextTasks ==
    \/ Called /\ TasksUpdate /\ UNCHANGED aux
    \/ Called /\ TasksRemove /\ UNCHANGED aux
    \/ Called /\ TasksSubscribe /\ UNCHANGED aux

SpecTasks == Init /\ [][NextTasks]_vars

----------------------------------------------------------------------------
(* Properties                                                              *)

Mutators == {"setHash", "confirm", "fail"}

\* a throwing callback is subscribed to the transaction id
ThrowingSubscriber(id) ==
    \E i \in 1..Len(handlers) :
        /\ handlers[i].kind = "tx"
        /\ handlers[i].id = id
        /\ handlers[i].behaviour = "throws"

\* C1: after confirmTransaction(id, result) on an id of the collection,
\* whatever the status of its record was, the record has status confirmed,
\* the given result and a confirmationTimestamp; the collection holds that
\* record under id unless the cleanup of the same call has removed it.
C1_ConfirmSetsConfirmed ==
    (last.op = "confirm" /\ last.known) =>
        /\ last.rec.status = "confirmed"
        /\ last.rec.result = last.arg
        /\ last.rec.confirmationTimestamp \in Times
        /\ Has(queue, last.id) => Get(queue, last.id) = last.rec

\* a record that had failed has been confirmed and is in the collection
C1_Witness ==
    /\ last.op = "confirm"
    /\ last.known
    /\ last.pre.status = "failed"
    /\ Has(queue, last.id)
    /\ Get(queue, last.id).status = "confirmed"

\* C2: after setTransactionHash(id, hash) on an id of the collection the
\* stored record has that hash and status confirming, also when the record
\* already had another hash.
C2_SetHashOverwrites ==
    (last.op = "setHash" /\ last.known) =>
        /\ Has(queue, last.id)
        /\ Get(queue, last.id) = last.rec
        /\ last.rec.hash = last.arg
        /\ last.rec.status = "confirming"

\* a second setTransactionHash has replaced a different hash
C2_Witness ==
    /\ last.op = "setHash"
    /\ last.known
    /\ last.pre.hash \in Hashes \ {last.arg}
    /\ Get(queue, last.id).hash = last.arg

Created(id) == calls' = calls + 1 /\ last'.op = "create" /\ last'.id = id

C5_UnknownIdNoOp ==
    [][(calls' = calls + 1 /\ last'.op \in Mutators /\ ~Has(queue, last'.id)) =>
          /\ queue' = queue
          /\ tasks' = tasks
          /\ handlers' = handlers
          /\ last'.delivered = <<>>
          /\ ~last'.threw
      ]_vars

\* confirmTransaction was called with an unknown id that a callback is
\* subscribed to, while the collection held more than maxHistorySize records
C5_Witness ==
    /\ last.op = "confirm"
    /\ ~Has(queue, last.id)
    /\ Len(queue) > maxHistorySize
    /\ \E i \in 1..Len(handlers) :
          handlers[i].kind = "tx" /\ handlers[i].id = last.id

\* C6: a record with status confirmed or failed has exactly one of result
\* and error.
C6_ExactlyOneOutcome ==
    \A i \in 1..Len(queue) :
        queue[i].status \in {"confirmed", "failed"} =>
            (queue[i].result # NoVal) # (queue[i].error # NoVal)

\* C7: a record with status pending or confirming has neither result nor
\* error.
C7_NoOutcomeBeforeTerminal ==
    \A i \in 1..Len(queue) :
        queue[i].status \in {"pending", "confirming"} =>
            queue[i].result = NoVal /\ queue[i].error = NoVal

\* the record under id is the same record before and after the step
SameRecord(id) == Has(queue, id) /\ Has(queue', id) /\ ~Created(id)

\* C8: the hash of a record goes from absent to present only while the
\* status is pending, and at most once: a hash that is present stays
\* present.
C8_HashOnceFromPending ==
    [][\A id \in TxIds : SameRecord(id) =>
          /\ (Get(queue, id).hash = NoVal /\ Get(queue', id).hash # NoVal)
                => Get(queue, id).status = "pending"
          /\ Get(queue, id).hash # NoVal => Get(queue', id).hash # NoVal
      ]_vars

\* C9: confirmationTimestamp goes from absent to present only in a
\* confirmTransaction call on the record, which leaves it confirmed, and
\* once present it does not change.
C9_ConfirmationTimestampSetOnce ==
    [][\A id \in TxIds : SameRecord(id) =>
          /\ (Get(queue, id).confirmationTimestamp = NoTime
                /\ Get(queue', id).confirmationTimestamp # NoTime)
                => /\ last'.op = "confirm"
                   /\ last'.id = id
                   /\ Get(queue', id).status = "confirmed"
          /\ Get(queue, id).confirmationTimestamp # NoTime
                => Get(queue', id).confirmationTimestamp
                      = Get(queue, id).confirmationTimestamp
      ]_vars

\* C10: after a confirmTransaction or failTransaction call on an id of the
\* collection, the collection holds at most maxHistorySize records.
C10_HistoryBound ==
    (last.op \in {"confirm", "fail"} /\ last.known) =>
        Len(queue) <= maxHistorySize

\* record j of s is newer than record i: a later timestamp, or the same
\* timestamp and a later place in the order of creation
Newer(s, j, i) ==
    \/ s[j].timestamp > s[i].timestamp
    \/ s[j].timestamp = s[i].timestamp /\ j > i

\* the ids of the maxHistorySize newest records of s
Newest(s) ==
    {s[i].id : i \in {k \in 1..Len(s) :
        Cardinality({j \in 1..Len(s) : Newer(s, j, k)}) < maxHistorySize}}

\* every record created in the scenario has been confirmed
AllCompleted ==
    /\ scenario.phase = "completing"
    /\ scenario.done = Ids(scenario.created)

CleanupRuns ==
    /\ calls' = calls + 1
    /\ last'.op = "confirm"
    /\ Has(queue, last'.id)
    /\ ~last'.threw
    /\ ~last'.hung

\* C12: a cleanup that finds n > maxHistorySize records deletes exactly
\* n - maxHistorySize of them (and none otherwise), and every deleted record
\* has a timestamp less than or equal to that of every retained record,
\* whatever the status of either.
C12_EvictsOldest ==
    [][CleanupRuns =>
          /\ Len(queue') = IF Len(queue) > maxHistorySize THEN maxHistorySize
                           ELSE Len(queue)
          /\ Ids(queue') \subseteq Ids(queue)
          /\ \A i, j \in 1..Len(queue) :
                (queue[i].id \notin Ids(queue') /\ queue[j].id \in Ids(queue'))
                    => queue[i].timestamp <= queue[j].timestamp
      ]_vars

\* two records were created and the only other call, a confirmTransaction
\* on one of them, has deleted the other, which was still pending
C12_Witness ==
    /\ last.op = "confirm"
    /\ last.known
    /\ ~last.threw
    /\ calls = 3
    /\ Cardinality(issued) = 2
    /\ Len(queue) = maxHistorySize
    /\ Has(queue, last.id)

C20_UpdateTaskReplaces ==
    last.op = "updateTask" => getTaskStatus(last.id) = last.arg

\* updateTaskStatus has replaced a record that had a result by one that
\* has none and differs in every field
C20_Witness ==
    /\ last.op = "updateTask"
    /\ last.known
    /\ last.pre.result # NoVal
    /\ last.arg.result = NoVal
    /\ last.pre.progress > last.arg.progress
    /\ getTaskStatus(last.id) = last.arg

SubscribersOf(id) ==
    SelectSeq(handlers, LAMBDA h : h.kind = "tx" /\ h.id = id)

\* C14: a call of setTransactionHash, confirmTransaction or failTransaction
\* on a stored id invokes the callback of every registration for that id
\* exactly once and no callback registered for another id, and
\* createTransaction invokes none.
C14_OneNotificationPerCall ==
    /\ last.op = "create" => last.delivered = <<>>
    /\ (last.op \in Mutators /\ last.known) =>
          /\ Len(last.delivered) = Len(SubscribersOf(last.id))
          /\ \A i \in 1..Len(last.delivered) :
                last.delivered[i] = SubscribersOf(last.id)[i].reg

\* C17: when a callback subscribed to the id throws, the call of the setter
\* still returns normally and the callbacks of the other registrations for
\* that id are still invoked.
C17_HandlerFailureIsolated ==
    (last.op \in Mutators /\ last.known /\ ThrowingSubscriber(last.id)) =>
        /\ ~last.threw
        /\ \A i \in 1..Len(SubscribersOf(last.id)) :
              \E j \in 1..Len(last.delivered) :
                  last.delivered[j] = SubscribersOf(last.id)[i].reg

\* C15: the record object a callback was handed by the i-th setter call
\* on an id keeps showing the state that call produced, whatever is
\* called afterwards.
C15_NotificationShowsStateOfItsCall ==
    \A i \in 1..Len(held) :
        held[i].reg # 0 => held[i].rec = held[i].seen

\* C18: a call of setTransactionHash, confirmTransaction, failTransaction
\* or updateTaskStatus returns, also when a callback subscribed to the id
\* never returns.
C18_MutatorReturns ==
    last.op \in Mutators \cup {"updateTask"} => ~last.hung

\* C19: what getTransaction returned keeps the value it had when it was
\* returned, whatever is stored afterwards.
C19_ReadIsACopy ==
    \A i \in 1..Len(held) :
        held[i].reg = 0 => held[i].rec = held[i].seen

\* C28: the id createTransaction returns is none of the ids it returned
\* before, so the call never replaces a record that is in the Map.
C28_IdsNeverReused ==
    [][(calls' = calls + 1 /\ last'.op = "create") =>
          /\ last'.id \notin issued
          /\ ~Has(queue, last'.id)
      ]_vars

C30_CreationFieldsFrozen ==
    [][\A i \in 1..Len(queue), k \in 1..Len(queue') :
          queue[i].id = queue'[k].id /\ ~Created(queue[i].id) =>
              /\ queue'[k].type = queue[i].type
              /\ queue'[k].params = queue[i].params
              /\ queue'[k].timestamp = queue[i].timestamp
      ]_vars

\* confirmTransaction has been called, later than the creation, on a
\* record that setTransactionHash had been called on, and the record is
\* still in the Map
C30_Witness ==
    /\ last.op = "confirm"
    /\ last.known
    /\ last.pre.status = "confirming"
    /\ Has(queue, last.id)
    /\ Get(queue, last.id).confirmationTimestamp > Get(queue, last.id).timestamp
    /\ Get(queue, last.id).type \in Types
    /\ Get(queue, last.id).params \in Params

\* the registrations for task id, in registration order
TaskSubscribersOf(id) ==
    SelectSeq(handlers, LAMBDA h : h.kind = "task" /\ h.id = id)

\* C22: a call of updateTaskStatus on a task id invokes the callback of
\* every registration for that task id exactly once and no other callback;
\* removeTask invokes none, and the transaction methods invoke no callback
\* registered with subscribeToTask.
C22_OneTaskNotificationPerUpdate ==
    /\ last.op = "updateTask" =>
          /\ Len(last.delivered) = Len(TaskSubscribersOf(last.id))
          /\ \A i \in 1..Len(last.delivered) :
                last.delivered[i] = TaskSubscribersOf(last.id)[i].reg
    /\ last.op = "removeTask" => last.delivered = <<>>
    /\ last.op \in Mutators \cup {"create"} =>
          \A i \in 1..Len(last.delivered) :
              HandlerOf(last.delivered[i]).kind = "tx"

\* depositFunds or withdrawFunds has just returned
Submitted ==
    /\ Len(jobs') = Len(jobs) + 1
    /\ jobs'[Len(jobs')].fn \in TrackedFns

\* C23: when depositFunds or withdrawFunds returns, the record of the
\* returned id is in the Map with status pending and no hash, result or
\* error; the only call the function has made into the TransactionQueue is
\* createTransaction, and its background work has not started.
C23_RecordPendingAtReturn ==
    [][Submitted =>
          LET job == jobs'[Len(jobs')]
          IN /\ job.returned
             /\ job.pc = "scheduled"
             /\ job.terminals = 0
             /\ last'.op = "create"
             /\ last'.id = job.id
             /\ Has(queue', job.id)
             /\ Get(queue', job.id).status = "pending"
             /\ Get(queue', job.id).hash = NoVal
             /\ Get(queue', job.id).result = NoVal
             /\ Get(queue', job.id).error = NoVal
      ]_vars

\* a second function has just returned its id while the transaction of the
\* first is still waiting to be mined
C23_Witness ==
    /\ Len(jobs) = 2
    /\ jobs[1].pc = "waiting"
    /\ jobs[2].pc = "scheduled"
    /\ jobs[2].fn \in TrackedFns
    /\ jobs[2].id # jobs[1].id
    /\ last.op = "create"
    /\ Get(queue, jobs[2].id).status = "pending"

\* C25: a job of depositFunds or withdrawFunds whose background work is
\* over has made exactly one confirmTransaction or failTransaction call,
\* and no job has made more than one.
C25_OneTerminalCall ==
    \A j \in 1..Len(jobs) :
        jobs[j].tracked =>
            /\ jobs[j].terminals <= 1
            /\ jobs[j].pc = "done" => jobs[j].terminals = 1

\* every job that writes the record of id is over
Over(id) ==
    \A j \in 1..Len(jobs) :
        jobs[j].id = id => jobs[j].pc \in {"done", "rejected"}

\* C26: once the process functions writing a task record have ended, the
\* record has status completed or failed: no ended analysis leaves its
\* record processing.
C26_NoAbandonedTask ==
    \A id \in DOMAIN tasks :
        Over(id) => tasks[id].status \in {"completed", "failed"}

\* C24: an analysis function makes no updateTaskStatus call before it
\* returns the task id.
C24_NothingInlineBeforeReturn ==
    \A j \in 1..Len(jobs) : jobs[j].inline = 0

\* the step is a call of op
TaskCall(op) == calls' = calls + 1 /\ last'.op = op

\* C21: getTaskStatus returns undefined for every id that is not in the
\* Map, which is empty at first; only updateTaskStatus adds an id, and only
\* its own; removeTask removes its id and no other, leaves every other
\* record as it was, and on an id that is not in the Map changes nothing
\* and does not throw.
C21_AbsentTaskIsNotFound ==
    /\ \A id \in StatusIds : getTaskStatus(id) = NoVal
    /\ [][/\ \A id \in StatusIds :
                id \notin DOMAIN tasks' => getTaskStatus(id)' = NoVal
          /\ TaskCall("updateTask") =>
                DOMAIN tasks' = DOMAIN tasks \cup {last'.id}
          /\ TaskCall("removeTask") =>
                /\ ~last'.threw
                /\ ~last'.hung
                /\ DOMAIN tasks' = DOMAIN tasks \ {last'.id}
                /\ \A id \in DOMAIN tasks' : tasks'[id] = tasks[id]
                /\ ~last'.known => tasks' = tasks
          /\ ~TaskCall("updateTask") /\ ~TaskCall("removeTask") =>
                tasks' = tasks
         ]_vars

\* a record has just been removed while another record is still there
C21_Witness ==
    /\ last.op = "removeTask"
    /\ last.known
    /\ last.id \notin DOMAIN tasks
    /\ DOMAIN tasks # {}

\* C31: every task record an analysis writes has a result exactly when its
\* status is completed: the processing and failed updates carry none, the
\* completed update carries one, in the argument of each updateTaskStatus
\* call and so in every stored record.
C31_ResultOnlyWhenCompleted ==
    /\ \A id \in DOMAIN tasks :
          tasks[id].result # NoVal <=> tasks[id].status = "completed"
    /\ last.op = "updateTask" =>
          (last.arg.result # NoVal <=> last.arg.status = "completed")

\* an analysis has just written its failed update, without a result, while
\* the record of an earlier analysis is completed with its result
C31_Witness ==
    /\ last.op = "updateTask"
    /\ last.arg.status = "failed"
    /\ last.arg.result = NoVal
    /\ \E id \in DOMAIN tasks :
          tasks[id].status = "completed" /\ tasks[id].result # NoVal

\* C33: the progress values a run of an analysis writes are within 0..100
\* and none is smaller than the one written before it.
C33_ProgressNeverDecreases ==
    \A j \in 1..Len(jobs) :
        \A i \in 1..Len(jobs[j].written) :
            /\ jobs[j].written[i] \in 0..100
            /\ i > 1 => jobs[j].written[i] >= jobs[j].written[i - 1]

\* the step is a call of a method writing the transaction Map
QueueCall ==
    /\ calls' = calls + 1
    /\ last'.op \in {"create", "setHash", "confirm", "fail"}

\* C32: the tasks Map changes only in updateTaskStatus and removeTask
\* calls, so that no transaction method, its cleanup included, adds,
\* changes or removes a task record; the transaction Map changes only in
\* the transaction methods; and a task id leaves the tasks Map only in a
\* removeTask call for that id.  All of this also when a task is stored
\* under an id that is the id of a transaction.
C32_MapsAreIndependent ==
    [][/\ tasks' # tasks => TaskCall("updateTask") \/ TaskCall("removeTask")
       /\ queue' # queue => QueueCall
       /\ \A id \in DOMAIN tasks :
             id \notin DOMAIN tasks' =>
                 TaskCall("removeTask") /\ last'.id = id
      ]_vars

\* a confirmTransaction call has just evicted the transaction whose id is
\* also the id of a task, and the task is still there
C32_Witness ==
    /\ last.op = "confirm"
    /\ last.known
    /\ \E id \in DOMAIN tasks : id \in issued /\ ~Has(queue, id)

\* C34: in a confirmTransaction call on an id that is in the Map, the
\* record is stored first, then the subscribers are notified, then the
\* cleanup runs: the record the subscribers are given has status confirmed
\* and is in the Map at that moment; the cleanup works on the Map holding
\* that record and may delete it, and it has not run when a callback
\* threw.
C34_StoreNotifyEvict ==
    [][(calls' = calls + 1 /\ last'.op = "confirm" /\ last'.known) =>
          LET stored == Set(queue, last'.id, last'.rec)
          IN /\ last'.rec.status = "confirmed"
             /\ Has(stored, last'.id)
             /\ Len(stored) = Len(queue)
             /\ last'.delivered = Emit(handlers, "tx", last'.id).delivered
             /\ queue' = IF last'.threw THEN stored
                         ELSE cleanupOldTransactions(stored)
      ]_vars

\* a confirmTransaction call has notified a subscriber of its id with the
\* confirmed record and then evicted that very record
C34_Witness ==
    /\ last.op = "confirm"
    /\ last.known
    /\ last.delivered # <<>>
    /\ ~last.threw
    /\ last.rec.status = "confirmed"
    /\ ~Has(queue, last.id)

\* C35: a record written only by depositFunds and withdrawFunds jobs that
\* is confirmed has a hash, and no step takes a record from pending to
\* confirmed.
C35_HashBeforeConfirm ==
    /\ \A i \in 1..Len(queue) :
          queue[i].status = "confirmed" => queue[i].hash # NoVal
    /\ last.op = "confirm" /\ last.known => last.pre.status # "pending"

\* C36: while the timer callbacks of several depositFunds and
\* withdrawFunds calls interleave, a setTransactionHash or failTransaction
\* call leaves the record of every other id in the Map exactly as it was
\* and adds or removes none, and a confirmTransaction call adds no record
\* and leaves every record of another id either exactly as it was or
\* deleted.
C36_OtherRecordsUntouched ==
    [][/\ last'.op \in {"setHash", "fail"} =>
             /\ Len(queue') = Len(queue)
             /\ \A i \in 1..Len(queue) :
                    /\ queue'[i].id = queue[i].id
                    /\ queue[i].id # last'.id => queue'[i] = queue[i]
       /\ last'.op = "confirm" =>
             \A k \in 1..Len(queue') :
                 \E i \in 1..Len(queue) :
                     /\ queue[i].id = queue'[k].id
                     /\ queue[i].id # last'.id => queue'[k] = queue[i]
      ]_vars

\* a confirmTransaction call has just evicted the record of another job,
\* whose transaction had been sent, and kept its own
C36_Witness ==
    /\ last.op = "confirm"
    /\ Has(queue, last.id)
    /\ \E j \in 1..Len(jobs) :
          /\ jobs[j].id # last.id
          /\ jobs[j].pc = "waiting"
          /\ ~Has(queue, jobs[j].id)

\* C27: every function that submits a transaction returns without having
\* awaited the confirmation, and returns the id of a record it created.
C27_SubmittersAreDeferred ==
    \A j \in 1..Len(jobs) :
        jobs[j].returned =>
            /\ jobs[j].tracked
            /\ ~jobs[j].waited
            /\ jobs[j].id \in issued

====
